---- MODULE Spec2Model ----
(***************************************************************************)
(* Model of the React front end of the audio processing app:               *)
(*   frontend/react-app/src/App.js (the component of lines 556-813),       *)
(*   unnamed/part_000 lines 1-53 (api.js: processAudio),                   *)
(*   components/AudioControls.js, SettingsCard.js, FileUpload.             *)
(*                                                                         *)
(* Strings that the code concatenates or splits are sequences of string    *)
(* tokens ("a" + "b" is <<"a">> \o <<"b">>).  JavaScript numbers are       *)
(* records [k, v]: k = "num" with v the value in tenths (0.7 is v = 7), or *)
(* k = "NaN".                                                              *)
(***************************************************************************)
EXTENDS Integers, Sequences, FiniteSets, TLC

VARIABLES
    selectedFile,       \* useState(null): the chosen File, or NoFile
    processedAudio,     \* useState(null): object URL of the result, or NoUrl
    isLoading,          \* useState(false): the busy flag
    denoiseStrength,    \* useState(0.5)
    outputFormat,       \* useState('wav')
    downloadFilename,   \* useState('processed_audio.wav')
    eqBands,            \* useState([...three seed bands...])
    applyNormalization, \* useState(false)
    requestWaveform,    \* useState(true)
    originalWaveform,   \* useState(null)
    processedWaveform,  \* useState(null)
    calls,              \* the processAudioAPI calls awaiting their response
    urlCount,           \* number of URL.createObjectURL calls made so far
    lastNow,            \* the latest value Date.now() returned
    toasts,             \* the notices the latest handler run emitted
    job,                \* the JobState of the submission flow
    lastEvent,          \* the latest event delivered and its argument
    nEdits,             \* number of configuration edits made so far
    effects,            \* the compressor and reverb sections and their parameters
    effectFields,       \* the compressor and reverb fields of the latest request
    waveformDisplay,    \* the props of a WaveformDisplay
    seeks,              \* the seek times onWaveformClick was called with
    audioDuration,      \* useState(0): the duration of the processed audio
    audio,              \* the audio element of AudioPlayer, by the src it was mounted with
    plays,              \* number of play() promises not yet settled
    blobDurations       \* the duration of the audio behind each object URL

appVars == <<selectedFile, processedAudio, isLoading, denoiseStrength, outputFormat,
             downloadFilename, eqBands, applyNormalization, requestWaveform,
             originalWaveform, processedWaveform, calls, urlCount, lastNow, job,
             audioDuration>>

vars == <<selectedFile, processedAudio, isLoading, denoiseStrength, outputFormat,
          downloadFilename, eqBands, applyNormalization, requestWaveform,
          originalWaveform, processedWaveform, calls, urlCount, lastNow, toasts,
          job, lastEvent, nEdits, effects, effectFields, waveformDisplay, seeks,
          audioDuration, audio, plays, blobDurations>>

\* What the handlers of App (lines 556-813) never touch.
auxVars == <<effects, effectFields, waveformDisplay, seeks, audio, plays, blobDurations>>

(***************************************************************************)
(* Bounds of the model.                                                    *)
(***************************************************************************)
MaxEdits == 1       \* edits that add or change a setting, per behaviour
MaxBands == 5       \* bands in the collection (three seeds + custom bands)
MaxUrls == 2        \* object URLs created, or still to create, per behaviour
MaxSeeks == 2       \* seek callbacks recorded per behaviour
MaxBandOps == 3     \* calls of the band handlers per behaviour of BandSpec

(***************************************************************************)
(* JavaScript values.                                                      *)
(***************************************************************************)
Fin(t) == [k |-> "num", v |-> t]
Num(n) == Fin(n * 10)
NaN == [k |-> "NaN", v |-> 0]
JsonNull == [k |-> "null", v |-> 0]

\* x !== 0 and x < 0 on numbers: NaN !== 0 is true, NaN < 0 is false.
StrictNeqZero(x) == x.k = "NaN" \/ x.v # 0
LessThanZero(x) == x.k = "num" /\ x.v < 0

\* JSON.stringify writes a NaN as null, any finite number as itself.
JsonNumber(x) == IF x.k = "NaN" THEN JsonNull ELSE x

\* String(x), as FormData.append stores a non-file value.
String(x) == [str |-> x]
BoolString(b) == IF b THEN <<"true">> ELSE <<"false">>

\* a || b on strings: the empty string is falsy.
OrElse(a, b) == IF a = <<>> THEN b ELSE a

(***************************************************************************)
(* parseFloat on a string given as its sequence of characters: an optional *)
(* sign, digits, an optional fraction; NaN when no digit is found.  The    *)
(* value is kept in tenths, so RawInputs holds at most one fraction digit. *)
(***************************************************************************)
Digits == <<"0", "1", "2", "3", "4", "5", "6", "7", "8", "9">>
IsDigit(c) == \E i \in 1..Len(Digits) : Digits[i] = c
DigitVal(c) == (CHOOSE i \in 1..Len(Digits) : Digits[i] = c) - 1

RECURSIVE CountDigits(_, _)
CountDigits(s, i) ==
    IF i <= Len(s) /\ IsDigit(s[i]) THEN 1 + CountDigits(s, i + 1) ELSE 0

RECURSIVE DigitsValue(_, _, _)
DigitsValue(s, i, n) ==
    IF n = 0 THEN 0
    ELSE DigitsValue(s, i, n - 1) * 10 + DigitVal(s[i + n - 1])

parseFloat(s) ==
    LET signed == Len(s) >= 1 /\ s[1] \in {"-", "+"}
        neg    == Len(s) >= 1 /\ s[1] = "-"
        start  == IF signed THEN 2 ELSE 1
        n      == CountDigits(s, start)
        dot    == start + n <= Len(s) /\ s[start + n] = "."
        m      == IF dot THEN CountDigits(s, start + n + 1) ELSE 0
        whole  == DigitsValue(s, start, n)
        frac   == IF m >= 1 THEN DigitVal(s[start + n + 1]) ELSE 0
        mag    == whole * 10 + frac
    IN  IF n = 0 /\ m = 0 THEN NaN ELSE Fin(IF neg THEN 0 - mag ELSE mag)

(***************************************************************************)
(* EQ bands (App.js 568-572, 582-609).                                     *)
(***************************************************************************)
BandTypes == {"peaking", "lowshelf", "highshelf"}

SeedBands == <<
    [id |-> <<"lowcut", 0>>, freq |-> Num(100), gain |-> Num(0), q |-> Fin(7),
     type |-> "lowshelf", editable |-> TRUE, removable |-> FALSE,
     name |-> <<"Low Cut", 0>>, enabled |-> TRUE],
    [id |-> <<"clarity", 0>>, freq |-> Num(2500), gain |-> Num(0), q |-> Fin(14),
     type |-> "peaking", editable |-> TRUE, removable |-> FALSE,
     name |-> <<"Vocal Clarity", 0>>, enabled |-> TRUE],
    [id |-> <<"presence", 0>>, freq |-> Num(5000), gain |-> Num(0), q |-> Fin(20),
     type |-> "peaking", editable |-> TRUE, removable |-> FALSE,
     name |-> <<"Presence/Sibilance", 0>>, enabled |-> TRUE] >>

\* prevBands.filter(b => b.removable).length
RECURSIVE CountRemovable(_)
CountRemovable(bands) ==
    IF bands = <<>> THEN 0
    ELSE (IF Head(bands).removable THEN 1 ELSE 0) + CountRemovable(Tail(bands))

\* The band handleAddEqBand appends; now is the Date.now() reading.
NewBand(prevBands, now) ==
    [id |-> <<"band", now>>, freq |-> Num(1000), gain |-> Num(0), q |-> Num(1),
     type |-> "peaking", editable |-> TRUE, removable |-> TRUE,
     name |-> <<"Custom Band", CountRemovable(prevBands) + 1>>, enabled |-> TRUE]

\* Faulty variant: the new band placed first.
AddEqBandFirst(prevBands, now) == <<NewBand(prevBands, now)>> \o prevBands

AddEqBand(prevBands, now) == Append(prevBands, NewBand(prevBands, now))

\* prevBands.filter(band => band.id !== idToRemove)
RECURSIVE RemoveEqBand(_, _)
RemoveEqBand(prevBands, idToRemove) ==
    IF prevBands = <<>> THEN <<>>
    ELSE IF Head(prevBands).id # idToRemove
         THEN <<Head(prevBands)>> \o RemoveEqBand(Tail(prevBands), idToRemove)
         ELSE RemoveEqBand(Tail(prevBands), idToRemove)

\* { ...band, ...newValues }
Merge(band, newValues) ==
    [f \in DOMAIN band |-> IF f \in DOMAIN newValues THEN newValues[f] ELSE band[f]]

\* Faulty variant: the map without the id test.
UpdateEqBandAll(prevBands, idToUpdate, newValues) ==
    [i \in 1..Len(prevBands) |-> Merge(prevBands[i], newValues)]

\* prevBands.map(band => band.id === idToUpdate ? { ...band, ...newValues } : band)
UpdateEqBand(prevBands, idToUpdate, newValues) ==
    [i \in 1..Len(prevBands) |->
        IF prevBands[i].id = idToUpdate THEN Merge(prevBands[i], newValues)
        ELSE prevBands[i]]

BandIds(bands) == {bands[i].id : i \in 1..Len(bands)}

(***************************************************************************)
(* Files and file names (App.js 611-636).  A name is its token sequence,   *)
(* "." being a token of its own.                                           *)
(***************************************************************************)
NoFile == [present |-> FALSE, name |-> <<>>]
File(name) == [present |-> TRUE, name |-> name]
Files == {File(<<"song", ".", "wav">>), File(<<"track">>)}

SUPPORTED_OUTPUT_FORMATS == {"wav", "mp3", "flac"}

\* Index of the last "." of a name, 0 when it has none.
RECURSIVE LastDot(_, _)
LastDot(name, i) ==
    IF i = 0 THEN 0 ELSE IF name[i] = "." THEN i ELSE LastDot(name, i - 1)

\* parts.length > 1 ? parts.slice(0, -1).join('.') : parts[0], parts = name.split('.')
Stem(name) ==
    LET d == LastDot(name, Len(name))
    IN  IF d = 0 THEN name ELSE SubSeq(name, 1, d - 1)

\* `processed_${stem}.${format}`
ProcessedName(stem, format) == <<"processed_">> \o stem \o <<".", format>>

\* handleFileChange 623-627, then the effect 630-636 that runs because
\* selectedFile changed: the effect's value is the one left in the state.
NameAfterFileChange(file, format, current) ==
    IF file.present THEN ProcessedName(OrElse(Stem(file.name), <<"audio">>), format)
    ELSE current

(***************************************************************************)
(* The request (handleSubmit 651-671).                                     *)
(***************************************************************************)
\* Faulty variants: the filter without the gain test; the filter that lets a shelf
\* through only when it cuts.
IsActiveBandEnabledOnly(band) == band.enabled
IsActiveBandShelfCutOnly(band) ==
    band.enabled /\ ( (band.type = "peaking" /\ StrictNeqZero(band.gain))
                      \/ (band.type = "lowshelf" /\ LessThanZero(band.gain))
                      \/ (band.type = "highshelf" /\ LessThanZero(band.gain)) )

\* band.enabled && (band.gain !== 0 || (lowshelf && gain < 0) || (highshelf && gain < 0))
IsActiveBand(band) ==
    band.enabled /\ ( StrictNeqZero(band.gain)
                      \/ (band.type = "lowshelf" /\ LessThanZero(band.gain))
                      \/ (band.type = "highshelf" /\ LessThanZero(band.gain)) )

\* Faulty variant: the map that copies the whole band.
WireBandSpread(band) == band

\* .map(band => ({ freq, gain, q, type }))
WireBand(band) ==
    [freq |-> band.freq, gain |-> band.gain, q |-> band.q, type |-> band.type]

\* eqBands.filter(...).map(...)
RECURSIVE ActiveEqBands(_)
ActiveEqBands(bands) ==
    IF bands = <<>> THEN <<>>
    ELSE IF IsActiveBand(Head(bands))
         THEN <<WireBand(Head(bands))>> \o ActiveEqBands(Tail(bands))
         ELSE ActiveEqBands(Tail(bands))

\* JSON.stringify of the array: the text is kept as the array it parses to.
JsonStringify(active) ==
    [i \in 1..Len(active) |->
        [f \in DOMAIN active[i] |->
            IF f \in {"freq", "gain", "q"} THEN JsonNumber(active[i][f]) ELSE active[i][f]]]

Absent == [present |-> FALSE, v |-> <<>>]
Field(v) == [present |-> TRUE, v |-> v]

\* Faulty variant: the field appended whatever the length.
EqBandsFieldAlways(bands) == Field(JsonStringify(ActiveEqBands(bands)))

\* if (activeEqBands.length > 0) formData.append('eq_bands_json', ...)
EqBandsField(bands) ==
    LET activeEqBands == ActiveEqBands(bands)
    IN  IF Len(activeEqBands) > 0 THEN Field(JsonStringify(activeEqBands)) ELSE Absent

BuildFormData(file, strength, format, normalization, waveform, bands) ==
    [file                |-> file,
     denoise_strength    |-> String(strength),
     output_format       |-> format,
     apply_normalization |-> BoolString(normalization),
     request_waveform    |-> BoolString(waveform),
     eq_bands_json       |-> EqBandsField(bands)]

(***************************************************************************)
(* processAudio (api.js, part_000 3-53).  A response of the service is:    *)
(*   net          fetch resolved (FALSE: the network call rejected)        *)
(*   ok, status   response.ok and response.status                          *)
(*   contentType  the content-type header, <<>> when there is none         *)
(*   bodyJson     response.json() parses the body                          *)
(*   detail       the body's detail field, <<>> when it has none           *)
(*   audio_b64    "valid", "invalid" or "missing"                          *)
(*   audio_format, audio_filename   <<>> when the body has none            *)
(*   original_waveform, processed_waveform   the arrays of the body        *)
(*   disposition  the Content-Disposition header                           *)
(***************************************************************************)
NoUrl == 0
Null == [k |-> "null", v |-> <<>>]
Undefined == [k |-> "undefined", v |-> <<>>]
Array(a) == [k |-> "array", v |-> a]
NoDisposition == [present |-> FALSE, attachment |-> FALSE, filename |-> <<>>]

IsJsonContentType(contentType) ==
    \E i \in 1..Len(contentType) : contentType[i] = "application/json"

Rejected(message) ==
    [ok |-> FALSE, message |-> message, audioUrl |-> NoUrl, originalWaveform |-> Undefined,
     processedWaveform |-> Undefined, downloadFilename |-> <<>>, isJson |-> FALSE]

Resolved(audioUrl, original, processed, filename, isJson) ==
    [ok |-> TRUE, message |-> <<>>, audioUrl |-> audioUrl, originalWaveform |-> original,
     processedWaveform |-> processed, downloadFilename |-> filename, isJson |-> isJson]

\* Faulty variant: the message that never reads the body.
ErrorMessageStatusOnly(r) == <<"HTTP error! status: ", r.status>>

\* 10-11: errorData = await response.json().catch(() => ({ detail: 'Unknown ...' }));
\*        errorData.detail || `HTTP error! status: ${response.status}`
ErrorMessage(r) ==
    LET errorData == IF r.bodyJson THEN [detail |-> r.detail]
                     ELSE [detail |-> <<"Unknown error occurred during processing">>]
    IN  OrElse(errorData.detail, <<"HTTP error! status: ", r.status>>)

\* Faulty variant: the JSON branch with the two waveforms taken from each
\* other's field.
JsonResultSwapped(r, newUrl) ==
    Resolved(newUrl, r.processed_waveform, r.original_waveform,
             OrElse(r.audio_filename,
                    <<"processed_audio", ".">> \o OrElse(r.audio_format, <<"wav">>)),
             TRUE)

\* 22-28: the object the JSON branch returns
JsonResult(r, newUrl) ==
    Resolved(newUrl, r.original_waveform, r.processed_waveform,
             OrElse(r.audio_filename,
                    <<"processed_audio", ".">> \o OrElse(r.audio_format, <<"wav">>)),
             TRUE)

\* What the promise of processAudio settles to; newUrl is what
\* URL.createObjectURL returns if it is called.
processAudio(r, newUrl) ==
    IF ~r.net THEN Rejected(<<"Failed to fetch">>)
    ELSE IF ~r.ok THEN Rejected(ErrorMessage(r))
    ELSE IF IsJsonContentType(r.contentType) THEN
        IF ~r.bodyJson THEN Rejected(<<"Unexpected token in JSON">>)
        ELSE IF r.audio_b64 # "valid"
             THEN Rejected(<<"The string to be decoded is not correctly encoded.">>)
        ELSE JsonResult(r, newUrl)
    ELSE
        Resolved(newUrl, Undefined, Undefined,
                 IF r.disposition.present /\ r.disposition.attachment
                    /\ r.disposition.filename # <<>>
                 THEN r.disposition.filename
                 ELSE <<"processed_audio", ".", "wav">>,
                 FALSE)

\* Whether processAudio calls URL.createObjectURL on this response.
CreatesUrl(r) == processAudio(r, NoUrl).ok

BaseResponse ==
    [net |-> TRUE, ok |-> TRUE, status |-> "200", contentType |-> <<"audio/wav">>,
     bodyJson |-> FALSE, detail |-> <<>>, audio_b64 |-> "missing",
     audio_format |-> <<>>, audio_filename |-> <<>>,
     original_waveform |-> Undefined, processed_waveform |-> Undefined,
     disposition |-> NoDisposition]

StreamResponse == BaseResponse
StreamWithName ==
    [BaseResponse EXCEPT !.disposition =
        [present |-> TRUE, attachment |-> TRUE, filename |-> <<"out", ".", "wav">>]]
JsonResponse ==
    [BaseResponse EXCEPT !.contentType = <<"application/json">>, !.bodyJson = TRUE,
        !.audio_b64 = "valid", !.audio_format = <<"wav">>,
        !.audio_filename = <<"processed_eq", ".", "wav">>,
        !.original_waveform = Array(<<1, 2>>), !.processed_waveform = Array(<<3, 4>>)]
JsonEmptyWaveforms ==
    [JsonResponse EXCEPT !.original_waveform = Array(<<>>),
        !.processed_waveform = Array(<<>>), !.audio_filename = <<>>]
JsonUnparseable == [JsonResponse EXCEPT !.bodyJson = FALSE]
JsonBadAudio == [JsonResponse EXCEPT !.audio_b64 = "invalid"]
JsonNoAudio == [JsonResponse EXCEPT !.audio_b64 = "missing"]
ErrorWithDetail ==
    [BaseResponse EXCEPT !.ok = FALSE, !.status = "500", !.bodyJson = TRUE,
        !.contentType = <<"application/json">>, !.detail = <<"Processing failed">>]
ErrorNoDetail == [ErrorWithDetail EXCEPT !.detail = <<>>]
ErrorNotJson == [ErrorWithDetail EXCEPT !.bodyJson = FALSE, !.contentType = <<"text/html">>]
NetworkFailure == [BaseResponse EXCEPT !.net = FALSE]

Responses ==
    {StreamResponse, StreamWithName, JsonResponse, JsonEmptyWaveforms, JsonUnparseable,
     JsonBadAudio, ErrorWithDetail, ErrorNoDetail, ErrorNotJson, NetworkFailure}

(***************************************************************************)
(* Notices (react-toastify).                                               *)
(***************************************************************************)
Toast(kind, message) == [kind |-> kind, message |-> message]

NoFileNotice == Toast("error", <<"Please select an audio file first.">>)
SuccessNotice == Toast("success", <<"Audio processed successfully!">>)
\* Faulty variant: the waveform notice raised as an error.
WaveformWarningAsError ==
    Toast("error", <<"Waveforms were requested, but the server response was not in the expected JSON format. Audio is processed.">>)

WaveformWarning ==
    Toast("warn", <<"Waveforms were requested, but the server response was not in the expected JSON format. Audio is processed.">>)
\* Faulty variant: the playback notice raised as an error.
PlaybackNoticeAsError ==
    Toast("error", <<"Playback initiated. If audio doesn't start, press play.">>)

PlaybackNotice ==
    Toast("info", <<"Playback initiated. If audio doesn't start, press play.">>)

\* Faulty variant: the notice that drops err.message.
FailureNoticeGeneric(message) ==
    Toast("error", <<"Failed to process audio. Please check the server logs.">>)

FailureNotice(message) ==
    Toast("error", OrElse(message, <<"Failed to process audio. Please check the server logs.">>))

Event(op, id) == [op |-> op, id |-> id]
NoId == <<"", 0>>

(***************************************************************************)
(* The compressor and reverb sections.  CompressorControls and             *)
(* ReverbControls (CompressorControls.js 4-113) declare the parameters and *)
(* their inputs; the component that holds showCompressor and showReverb    *)
(* and puts the parameters in the request is not part of the sources, so   *)
(* the section flags and the request fields follow sections 3 and 4.2 of   *)
(* the specification.                                                      *)
(***************************************************************************)
CompressorParams == {"threshold", "ratio", "attack", "release"}
ReverbParams == {"roomSize", "wetDryMix"}

DefaultEffects ==
    [showCompressor |-> FALSE, showReverb |-> FALSE,
     threshold |-> Num(-20), ratio |-> Num(4), attack |-> Num(5), release |-> Num(50),
     roomSize |-> Fin(5), wetDryMix |-> Fin(3)]

AbsentNumber == [present |-> FALSE, v |-> String(Fin(0))]
NumberField(x) == [present |-> TRUE, v |-> String(x)]

NoEffectFields ==
    [built |-> FALSE,
     compressor_threshold |-> AbsentNumber, compressor_ratio |-> AbsentNumber,
     compressor_attack |-> AbsentNumber, compressor_release |-> AbsentNumber,
     reverb_room_size |-> AbsentNumber, reverb_wet_dry_mix |-> AbsentNumber]

\* Faulty variant: the parameters sent whatever the section flags.
EffectFieldsAlways(e) ==
    [built |-> TRUE,
     compressor_threshold |-> NumberField(e.threshold),
     compressor_ratio |-> NumberField(e.ratio),
     compressor_attack |-> NumberField(e.attack),
     compressor_release |-> NumberField(e.release),
     reverb_room_size |-> NumberField(e.roomSize),
     reverb_wet_dry_mix |-> NumberField(e.wetDryMix)]

\* A parameter group is in the request only when its section is active; then
\* all its parameters are sent.
EffectFields(e) ==
    LET comp(x) == IF e.showCompressor THEN NumberField(x) ELSE AbsentNumber
        rev(x)  == IF e.showReverb THEN NumberField(x) ELSE AbsentNumber
    IN  [built |-> TRUE,
         compressor_threshold |-> comp(e.threshold),
         compressor_ratio |-> comp(e.ratio),
         compressor_attack |-> comp(e.attack),
         compressor_release |-> comp(e.release),
         reverb_room_size |-> rev(e.roomSize),
         reverb_wet_dry_mix |-> rev(e.wetDryMix)]

(***************************************************************************)
(* WaveformDisplay (WaveformDisplay.js).  Its props are data,              *)
(* audioDuration, onWaveformClick (here: whether one is passed) and width; *)
(* left is the left edge of the canvas, canvas.getBoundingClientRect().left.*)
(* A seek time is a fraction [n, d] of tenths of a second.                 *)
(***************************************************************************)
DefaultWaveformDisplay ==
    [data |-> Null, audioDuration |-> Num(0), onWaveformClick |-> TRUE,
     width |-> 300, left |-> 0]

\* data && data.length > 0
HasData(data) == data.k = "array" /\ Len(data.v) > 0

\* !audioDuration is false: the number is neither 0 nor NaN
Truthy(x) == x.k = "num" /\ x.v # 0

\* Faulty variant: the guard without the test of data.
SeekGuardNoData(props) == props.onWaveformClick /\ Truthy(props.audioDuration)

\* 9: if (!onWaveformClick || !data || data.length === 0 || !audioDuration) return;
SeekGuard(props) ==
    ~( ~props.onWaveformClick \/ props.data.k # "array" \/ Len(props.data.v) = 0
       \/ ~Truthy(props.audioDuration) )

\* 31-68: the draw effect paints the envelope, else the "no data" placeholder
Placeholder(props) == ~HasData(props.data)

\* Faulty variant: the click position taken from the page, not from the canvas.
CanvasXClient(clientX, left) == clientX

\* 15: x = event.clientX - rect.left
CanvasX(clientX, left) == clientX - left

\* 18-19: clickPositionRatio = x / width; seekTime = clickPositionRatio * audioDuration
SeekTime(x, width, duration) ==
    LET clickPositionRatio == [n |-> x, d |-> width]
    IN  [n |-> clickPositionRatio.n * duration.v, d |-> clickPositionRatio.d]

(***************************************************************************)
(* The audio element of AudioPlayer (CompressorControls.js 118-141).  It   *)
(* is mounted while processedAudio is set, and a new object URL mounts a   *)
(* new element: the variable audio holds the element mounted with          *)
(* audio.src, and any other src means an element nothing has acted on yet. *)
(* A time is a fraction [n, d] of tenths of a second.                      *)
(***************************************************************************)
FreshAudio(src) ==
    [src |-> src, currentTime |-> [n |-> 0, d |-> 1], paused |-> TRUE, loaded |-> FALSE]

NoAudio == FreshAudio(NoUrl)

AuxInit ==
    /\ effects = DefaultEffects
    /\ effectFields = NoEffectFields
    /\ waveformDisplay = DefaultWaveformDisplay
    /\ seeks = <<>>
    /\ audio = NoAudio
    /\ plays = 0
    /\ blobDurations = [u \in 1..MaxUrls |-> Num(10)]

(***************************************************************************)
(* Initial state: the useState initial values of App (App.js 557-577).     *)
(***************************************************************************)
AppInit ==
    /\ selectedFile = NoFile
    /\ processedAudio = NoUrl
    /\ isLoading = FALSE
    /\ denoiseStrength = Fin(5)
    /\ outputFormat = "wav"
    /\ downloadFilename = <<"processed_audio", ".", "wav">>
    /\ eqBands = SeedBands
    /\ applyNormalization = FALSE
    /\ requestWaveform = TRUE
    /\ originalWaveform = Null
    /\ processedWaveform = Null
    /\ calls = <<>>
    /\ urlCount = 0
    /\ lastNow = 0
    /\ toasts = <<>>
    /\ job = "Idle"
    /\ lastEvent = Event("init", NoId)
    /\ nEdits = 0
    /\ audioDuration = Num(0)

Init == AppInit /\ AuxInit

(***************************************************************************)
(* The handlers of App.                                                    *)
(***************************************************************************)
\* handleAddEqBand (582-597); now is the value Date.now() returns.
handleAddEqBand(now) ==
    /\ eqBands' = AddEqBand(eqBands, now)
    /\ lastNow' = now
    /\ toasts' = <<>>
    /\ lastEvent' = Event("addBand", <<"band", now>>)
    /\ UNCHANGED <<selectedFile, processedAudio, isLoading, denoiseStrength, outputFormat,
                   downloadFilename, applyNormalization, requestWaveform,
                   originalWaveform, processedWaveform, calls, urlCount, job, audioDuration>>

\* handleRemoveEqBand (599-601)
handleRemoveEqBand(idToRemove) ==
    /\ eqBands' = RemoveEqBand(eqBands, idToRemove)
    /\ toasts' = <<>>
    /\ lastEvent' = Event("removeBand", idToRemove)
    /\ UNCHANGED <<selectedFile, processedAudio, isLoading, denoiseStrength, outputFormat,
                   downloadFilename, applyNormalization, requestWaveform,
                   originalWaveform, processedWaveform, calls, urlCount, lastNow, job, audioDuration>>

\* handleUpdateEqBand (603-609)
handleUpdateEqBand(idToUpdate, newValues) ==
    /\ eqBands' = UpdateEqBand(eqBands, idToUpdate, newValues)
    /\ toasts' = <<>>
    /\ lastEvent' = Event("updateBand", idToUpdate)
    /\ UNCHANGED <<selectedFile, processedAudio, isLoading, denoiseStrength, outputFormat,
                   downloadFilename, applyNormalization, requestWaveform,
                   originalWaveform, processedWaveform, calls, urlCount, lastNow, job, audioDuration>>

\* handleBandChange of AudioControls (46-49): value is the input's raw text.
NumericFields == {"freq", "gain", "q"}
handleBandChange(id, field, value) ==
    LET numericValue == IF field \in NumericFields THEN parseFloat(value) ELSE value
    IN  handleUpdateEqBand(id, [f \in {field} |-> numericValue])

\* handleFileChange (611-628) and the effect (630-636) it triggers.
handleFileChange(file) ==
    /\ audioDuration' = Num(0)
    /\ selectedFile' = file
    /\ processedAudio' = NoUrl
    /\ originalWaveform' = Null
    /\ processedWaveform' = Null
    /\ downloadFilename' = NameAfterFileChange(file, outputFormat, downloadFilename)
    /\ toasts' = <<>>
    /\ lastEvent' = Event("fileChange", NoId)
    /\ UNCHANGED <<isLoading, denoiseStrength, outputFormat, eqBands, applyNormalization,
                   requestWaveform, calls, urlCount, lastNow, job>>

\* onDenoiseStrengthChange (761)
setDenoiseStrength(value) ==
    /\ denoiseStrength' = parseFloat(value)
    /\ toasts' = <<>>
    /\ lastEvent' = Event("denoiseStrength", NoId)
    /\ UNCHANGED <<selectedFile, processedAudio, isLoading, outputFormat, downloadFilename,
                   eqBands, applyNormalization, requestWaveform, originalWaveform,
                   processedWaveform, calls, urlCount, lastNow, job, audioDuration>>

\* onOutputFormatChange (763) and the effect (630-636) it triggers.
setOutputFormat(format) ==
    /\ outputFormat' = format
    /\ downloadFilename' = IF format # outputFormat
                           THEN NameAfterFileChange(selectedFile, format, downloadFilename)
                           ELSE downloadFilename
    /\ toasts' = <<>>
    /\ lastEvent' = Event("outputFormat", NoId)
    /\ UNCHANGED <<selectedFile, processedAudio, isLoading, denoiseStrength, eqBands,
                   applyNormalization, requestWaveform, originalWaveform,
                   processedWaveform, calls, urlCount, lastNow, job, audioDuration>>

\* onApplyNormalizationChange (771)
setApplyNormalization(checked) ==
    /\ applyNormalization' = checked
    /\ toasts' = <<>>
    /\ lastEvent' = Event("applyNormalization", NoId)
    /\ UNCHANGED <<selectedFile, processedAudio, isLoading, denoiseStrength, outputFormat,
                   downloadFilename, eqBands, requestWaveform, originalWaveform,
                   processedWaveform, calls, urlCount, lastNow, job, audioDuration>>

\* onRequestWaveformChange (773)
setRequestWaveform(checked) ==
    /\ requestWaveform' = checked
    /\ toasts' = <<>>
    /\ lastEvent' = Event("requestWaveform", NoId)
    /\ UNCHANGED <<selectedFile, processedAudio, isLoading, denoiseStrength, outputFormat,
                   downloadFilename, eqBands, applyNormalization, originalWaveform,
                   processedWaveform, calls, urlCount, lastNow, job, audioDuration>>

\* handleSubmit (638-674), up to the await: the early return without a file,
\* else the reset, the request and the call of processAudioAPI.
Call(formData, waveform) == [formData |-> formData, requestWaveform |-> waveform]

\* 640-643: toast.error(...); return
RejectSubmit ==
    /\ toasts' = <<NoFileNotice>>
    /\ lastEvent' = Event("submitNoFile", NoId)
    /\ UNCHANGED appVars

\* 645-674: the reset, the FormData and the call of processAudioAPI(formData)
StartSubmit ==
    /\ isLoading' = TRUE
    /\ processedAudio' = NoUrl
    /\ originalWaveform' = Null
    /\ processedWaveform' = Null
    /\ calls' = Append(calls,
           Call(BuildFormData(selectedFile, denoiseStrength, outputFormat,
                              applyNormalization, requestWaveform, eqBands),
                requestWaveform))
    /\ job' = "Submitting"
    /\ toasts' = <<>>
    /\ lastEvent' = Event("submit", NoId)
    /\ UNCHANGED <<selectedFile, denoiseStrength, outputFormat, downloadFilename,
                   eqBands, applyNormalization, requestWaveform, urlCount, lastNow,
                   audioDuration>>

\* Faulty variant: the handler without its early return.
handleSubmitNoFileCheck == StartSubmit

handleSubmit == IF ~selectedFile.present THEN RejectSubmit ELSE StartSubmit

RemoveAt(seq, i) == SubSeq(seq, 1, i - 1) \o SubSeq(seq, i + 1, Len(seq))

\* Faulty variant: setIsLoading(false) as the last statement of try.
BusyAfterInTry(result) == ~result.ok

\* 700-702: finally { setIsLoading(false); }
BusyAfter(result) == FALSE

\* handleSubmit (674-702), from the await on: call i settles with response r.
\* requestWaveform is the value the handler's closure captured at submit.
Settle(i, r) ==
    LET call   == calls[i]
        result == processAudio(r, urlCount + 1)
    IN  /\ calls' = RemoveAt(calls, i)
        /\ isLoading' = BusyAfter(result)
        /\ IF result.ok
           THEN /\ urlCount' = urlCount + 1
                /\ processedAudio' = result.audioUrl
                /\ downloadFilename' = result.downloadFilename
                /\ IF result.isJson /\ call.requestWaveform
                   THEN /\ originalWaveform' = result.originalWaveform
                        /\ processedWaveform' = result.processedWaveform
                   ELSE IF ~result.isJson
                        THEN /\ originalWaveform' = Null
                             /\ processedWaveform' = Null
                        ELSE UNCHANGED <<originalWaveform, processedWaveform>>
                /\ toasts' = (IF call.requestWaveform /\ ~result.isJson
                              THEN <<WaveformWarning>> ELSE <<>>) \o <<SuccessNotice>>
                /\ job' = "Succeeded"
                /\ lastEvent' = Event("resolve", NoId)
           ELSE /\ toasts' = <<FailureNotice(result.message)>>
                /\ job' = "Failed"
                /\ lastEvent' = Event("reject", NoId)
                /\ UNCHANGED <<urlCount, processedAudio, downloadFilename,
                               originalWaveform, processedWaveform>>
        /\ UNCHANGED <<selectedFile, denoiseStrength, outputFormat, eqBands,
                       applyNormalization, requestWaveform, lastNow, audioDuration>>

(***************************************************************************)
(* Events as the rendered page delivers them: a control that is disabled   *)
(* or not rendered delivers nothing.                                       *)
(***************************************************************************)
\* What the inputs hand to the handlers: the text of a number or range input.
RawInputs == {<<"-", "3">>, <<"3">>, <<>>}

\* Faulty variants: the Button without the busy flag; the Button never disabled.
SubmitDisabledNoBusy == ~selectedFile.present
SubmitNeverDisabled == FALSE

\* disabled={isLoading || !selectedFile} of the submit Button (App.js 752)
SubmitDisabled == isLoading \/ ~selectedFile.present

\* disabled={isLoading || !band.editable} of a band's inputs (AudioControls.js 89-156)
BandInputDisabled(band) == isLoading \/ ~band.editable

\* {band.removable && <SmallButton disabled={isLoading}>} (AudioControls.js 93-102)
RemoveButtonUsable(band) == band.removable /\ ~isLoading

\* Faulty variant: the controls left enabled while a call is in flight.
ControlsNeverDisabled == FALSE

\* disabled={isLoading} of the file input (FileUpload), of Add EQ Band and of
\* the settings inputs (SettingsCard.js, the component that takes the settings
\* props App passes at 760-774)
ControlsDisabled == isLoading

Edit(handler) ==
    nEdits < MaxEdits /\ nEdits' = nEdits + 1 /\ handler /\ UNCHANGED auxVars

\* Date.now() never goes back
NowReadings == {lastNow, lastNow + 1}

ChooseFile(file) ==
    /\ ~ControlsDisabled
    /\ handleFileChange(file)
    /\ UNCHANGED <<nEdits, auxVars>>

ClickProcess ==
    /\ ~SubmitDisabled
    /\ urlCount + Len(calls) < MaxUrls
    /\ handleSubmit
    /\ UNCHANGED <<nEdits, auxVars>>

\* A click on the disabled submit Button: the browser delivers no event.
ClickProcessDisabled ==
    /\ SubmitDisabled
    /\ lastEvent' = Event("clickDisabled", NoId)
    /\ UNCHANGED <<appVars, toasts, nEdits, auxVars>>

\* getGainAttributes (51-57): min and max of the gain input, in tenths
GainAttributes(type) ==
    IF type \in {"lowshelf", "highshelf"} THEN [min |-> -240, max |-> 60]
    ELSE [min |-> -120, max |-> 120]

\* The texts an input of a band hands over.  The frequency is a number input
\* (109-119): it holds whatever was typed, "" when that is no number, and its
\* min and max stop nothing.  Gain and q are range inputs: the browser keeps
\* their value within min and max (gain 128-130, q 141-143, in tenths).
InputTexts(band, field) ==
    IF field = "freq" THEN RawInputs
    ELSE {t \in RawInputs :
            LET x == parseFloat(t)
                a == IF field = "gain" THEN GainAttributes(band.type)
                     ELSE [min |-> 1, max |-> 100]
            IN  x.k = "num" /\ a.min <= x.v /\ x.v <= a.max}

EditBandNumber(i, field, value) ==
    /\ ~BandInputDisabled(eqBands[i])
    /\ value \in InputTexts(eqBands[i], field)
    /\ Edit(handleBandChange(eqBands[i].id, field, value))

SelectBandType(i, type) ==
    /\ ~BandInputDisabled(eqBands[i])
    /\ type # eqBands[i].type
    /\ Edit(handleBandChange(eqBands[i].id, "type", type))

ToggleBand(i) ==
    /\ ~BandInputDisabled(eqBands[i])
    /\ Edit(handleUpdateEqBand(eqBands[i].id, [enabled |-> ~eqBands[i].enabled]))

\* A removal takes nothing of the edit budget: the bands there are bound it.
ClickRemove(i) ==
    /\ RemoveButtonUsable(eqBands[i])
    /\ handleRemoveEqBand(eqBands[i].id)
    /\ UNCHANGED <<nEdits, auxVars>>

ClickAdd(now) ==
    /\ ~ControlsDisabled
    /\ Len(eqBands) < MaxBands
    /\ Edit(handleAddEqBand(now))

ChangeDenoiseStrength(value) ==
    /\ ~ControlsDisabled
    /\ Edit(setDenoiseStrength(value))

ChangeOutputFormat(format) ==
    /\ ~ControlsDisabled
    /\ format # outputFormat
    /\ Edit(setOutputFormat(format))

ToggleNormalization ==
    /\ ~ControlsDisabled
    /\ Edit(setApplyNormalization(~applyNormalization))

ToggleRequestWaveform ==
    /\ ~ControlsDisabled
    /\ Edit(setRequestWaveform(~requestWaveform))

\* The service answers a call in flight.
Respond(r) ==
    /\ \E i \in 1..Len(calls) : Settle(i, r)
    /\ UNCHANGED <<nEdits, auxVars>>

Next ==
    \/ \E file \in Files \cup {NoFile} : ChooseFile(file)
    \/ ClickProcess
    \/ ClickProcessDisabled
    \/ \E i \in 1..Len(eqBands), field \in NumericFields, value \in RawInputs :
          EditBandNumber(i, field, value)
    \/ \E i \in 1..Len(eqBands), type \in BandTypes : SelectBandType(i, type)
    \/ \E i \in 1..Len(eqBands) : ToggleBand(i)
    \/ \E i \in 1..Len(eqBands) : ClickRemove(i)
    \/ \E now \in NowReadings : ClickAdd(now)
    \/ \E value \in {<<"0", ".", "3">>} : ChangeDenoiseStrength(value)
    \/ \E format \in SUPPORTED_OUTPUT_FORMATS : ChangeOutputFormat(format)
    \/ ToggleNormalization
    \/ ToggleRequestWaveform
    \/ \E r \in Responses : Respond(r)

Spec == Init /\ [][Next]_vars

(***************************************************************************)
(* The handlers invoked directly, with any argument, as a test or another  *)
(* component invokes them: nothing of the page stands in between.          *)
(***************************************************************************)
UnknownId == <<"nosuch", 0>>

PartialUpdates ==
    {[gain |-> Num(-3)], [gain |-> Num(3)], [enabled |-> FALSE], [type |-> "highshelf"],
     [freq |-> NaN], [gain |-> Num(-3), enabled |-> FALSE]}

CallSubmit ==
    /\ urlCount + Len(calls) < MaxUrls
    /\ handleSubmit
    /\ UNCHANGED <<nEdits, auxVars>>

CallFileChange(file) == handleFileChange(file) /\ UNCHANGED <<nEdits, auxVars>>

CallAdd(now) == Len(eqBands) < MaxBands /\ Edit(handleAddEqBand(now))

CallRemove(id) == Edit(handleRemoveEqBand(id))

CallUpdate(id, newValues) == Edit(handleUpdateEqBand(id, newValues))

HandlerNext ==
    \/ CallSubmit
    \/ \E file \in {File(<<"song", ".", "wav">>), NoFile} : CallFileChange(file)
    \/ \E now \in NowReadings : CallAdd(now)
    \/ \E id \in BandIds(eqBands) \cup {UnknownId} : CallRemove(id)
    \/ \E id \in BandIds(eqBands) \cup {UnknownId}, newValues \in PartialUpdates :
          CallUpdate(id, newValues)
    \/ \E r \in {StreamResponse, JsonResponse, ErrorWithDetail} : Respond(r)

HandlerSpec == Init /\ [][HandlerNext]_vars

(***************************************************************************)
(* The request builder on its own: the band collection is any collection   *)
(* the edits can produce from the seeds (gain, type and enabled of every   *)
(* band, with or without one custom band), a file is selected, and the     *)
(* request is built by submitting.                                         *)
(***************************************************************************)
BuildGains == {Num(0), Num(-3), Num(3), NaN}

BuildSeed(i) ==
    {[SeedBands[i] EXCEPT !.gain = g, !.type = t, !.enabled = e] :
        g \in BuildGains, t \in BandTypes, e \in BOOLEAN}

BuildCustom ==
    {<<>>} \cup {<<[NewBand(SeedBands, 1) EXCEPT !.gain = g]>> : g \in {Num(0), Num(-3)}}

BuildBands ==
    {<<b1, b2, b3>> \o c :
        b1 \in BuildSeed(1), b2 \in BuildSeed(2), b3 \in BuildSeed(3), c \in BuildCustom}

BuildInit ==
    /\ selectedFile = File(<<"song", ".", "wav">>)
    /\ processedAudio = NoUrl
    /\ isLoading = FALSE
    /\ denoiseStrength = Fin(5)
    /\ outputFormat = "wav"
    /\ downloadFilename = ProcessedName(<<"song">>, "wav")
    /\ eqBands \in BuildBands
    /\ applyNormalization = FALSE
    /\ requestWaveform = TRUE
    /\ originalWaveform = Null
    /\ processedWaveform = Null
    /\ calls = <<>>
    /\ urlCount = 0
    /\ lastNow = 1
    /\ toasts = <<>>
    /\ job = "Idle"
    /\ lastEvent = Event("init", NoId)
    /\ nEdits = 0
    /\ audioDuration = Num(0)
    /\ AuxInit

BuildNext == ClickProcess

BuildSpec == BuildInit /\ [][BuildNext]_vars

(***************************************************************************)
(* Submissions on their own: a file is selected, the settings are any the  *)
(* inputs can give them, and the page delivers submit clicks and the       *)
(* service's responses.                                                    *)
(***************************************************************************)
SubmitFiles == {File(<<"another_song", ".", "wav">>), File(<<"track">>)}

SubmitBands == {SeedBands, [SeedBands EXCEPT ![1].gain = Num(-3)]}

SubmitResponses == Responses \cup {JsonNoAudio}

SubmitInit ==
    /\ selectedFile \in SubmitFiles
    /\ processedAudio = NoUrl
    /\ isLoading = FALSE
    /\ denoiseStrength \in {Fin(5), Fin(3)}
    /\ outputFormat \in SUPPORTED_OUTPUT_FORMATS
    /\ downloadFilename = NameAfterFileChange(selectedFile, outputFormat, <<>>)
    /\ eqBands \in SubmitBands
    /\ applyNormalization \in BOOLEAN
    /\ requestWaveform \in BOOLEAN
    /\ originalWaveform = Null
    /\ processedWaveform = Null
    /\ calls = <<>>
    /\ urlCount = 0
    /\ lastNow = 0
    /\ toasts = <<>>
    /\ job = "Idle"
    /\ lastEvent = Event("init", NoId)
    /\ nEdits = 0
    /\ audioDuration = Num(0)
    /\ AuxInit

SubmitNext ==
    \/ ClickProcess
    \/ ClickProcessDisabled
    \/ \E r \in SubmitResponses : Respond(r)

SubmitSpec == SubmitInit /\ [][SubmitNext]_vars

(***************************************************************************)
(* The compressor and reverb sections on their own.                        *)
(***************************************************************************)
\* The values the sliders explored are moved to.
ParamValues ==
    [threshold |-> {Num(-20), Num(-40)}, release |-> {Num(50), Num(100)},
     wetDryMix |-> {Fin(3), Fin(6)}]

EffectFrame ==
    UNCHANGED <<appVars, toasts, nEdits, waveformDisplay, seeks, audio, plays, blobDurations>>

ToggleCompressor ==
    /\ ~ControlsDisabled
    /\ effects' = [effects EXCEPT !.showCompressor = ~effects.showCompressor]
    /\ lastEvent' = Event("showCompressor", NoId)
    /\ UNCHANGED effectFields
    /\ EffectFrame

ToggleReverb ==
    /\ ~ControlsDisabled
    /\ effects' = [effects EXCEPT !.showReverb = ~effects.showReverb]
    /\ lastEvent' = Event("showReverb", NoId)
    /\ UNCHANGED effectFields
    /\ EffectFrame

\* The range inputs of CompressorControls (16-64), shown with the section.
ChangeCompressor(param, value) ==
    /\ ~ControlsDisabled
    /\ effects.showCompressor
    /\ effects' = [effects EXCEPT ![param] = value]
    /\ lastEvent' = Event(param, NoId)
    /\ UNCHANGED effectFields
    /\ EffectFrame

\* The range inputs of ReverbControls (87-107), shown with the section.
ChangeReverb(param, value) ==
    /\ ~ControlsDisabled
    /\ effects.showReverb
    /\ effects' = [effects EXCEPT ![param] = value]
    /\ lastEvent' = Event(param, NoId)
    /\ UNCHANGED effectFields
    /\ EffectFrame

\* The request is built: the fields of the two parameter groups.
SubmitEffects ==
    /\ effectFields' = EffectFields(effects)
    /\ lastEvent' = Event("submitEffects", NoId)
    /\ UNCHANGED effects
    /\ EffectFrame

EffectNext ==
    \/ ToggleCompressor
    \/ ToggleReverb
    \/ \E param \in CompressorParams \cap DOMAIN ParamValues :
          \E value \in ParamValues[param] : ChangeCompressor(param, value)
    \/ \E param \in ReverbParams \cap DOMAIN ParamValues :
          \E value \in ParamValues[param] : ChangeReverb(param, value)
    \/ SubmitEffects

EffectSpec == Init /\ [][EffectNext]_vars

(***************************************************************************)
(* A WaveformDisplay on its own: the props are any App can pass, and the   *)
(* browser delivers clicks on the container.                               *)
(***************************************************************************)
WaveformData == {Null, Undefined, Array(<<>>), Array(<<1, 2>>)}

\* audioDuration is App's state: 0 at first, then the audio element's duration.
AudioDurations == {Num(0), NaN, Num(10), Num(4)}

WaveformProps ==
    [data : WaveformData, audioDuration : AudioDurations, onWaveformClick : BOOLEAN,
     width : {300, 200}, left : {0, 20}]

ClientXs == {0, 20, 100, 120, 150, 170, 300}

WaveformInit ==
    /\ AppInit
    /\ effects = DefaultEffects
    /\ effectFields = NoEffectFields
    /\ waveformDisplay \in WaveformProps
    /\ seeks = <<>>
    /\ audio = NoAudio
    /\ plays = 0
    /\ blobDurations = [u \in 1..MaxUrls |-> Num(10)]

\* handleCanvasClick (8-22); the canvas is mounted whenever a click arrives.
handleCanvasClick(clientX) ==
    LET x == CanvasX(clientX, waveformDisplay.left)
    IN  /\ seeks' = IF SeekGuard(waveformDisplay)
                    THEN Append(seeks, SeekTime(x, waveformDisplay.width,
                                                waveformDisplay.audioDuration))
                    ELSE seeks
        /\ lastEvent' = Event("canvasClick", <<"clientX", clientX>>)
        /\ UNCHANGED <<appVars, toasts, nEdits, effects, effectFields, waveformDisplay,
                       audio, plays, blobDurations>>

CanvasClick(clientX) ==
    /\ Len(seeks) < MaxSeeks
    /\ handleCanvasClick(clientX)

WaveformNext == \E clientX \in ClientXs : CanvasClick(clientX)

WaveformSpec == WaveformInit /\ [][WaveformNext]_vars

(***************************************************************************)
(* The band collection on its own: sequences of handleAddEqBand,           *)
(* handleRemoveEqBand and handleUpdateEqBand calls on the bands there are. *)
(***************************************************************************)
BandOp(handler) ==
    nEdits < MaxBandOps /\ nEdits' = nEdits + 1 /\ handler /\ UNCHANGED auxVars

BandAdd(now) == Len(eqBands) < MaxBands /\ BandOp(handleAddEqBand(now))

BandRemove(id) == BandOp(handleRemoveEqBand(id))

BandUpdate(id, newValues) == BandOp(handleUpdateEqBand(id, newValues))

BandNext ==
    \/ \E now \in NowReadings : BandAdd(now)
    \/ \E id \in BandIds(eqBands) : BandRemove(id)
    \/ \E id \in BandIds(eqBands), newValues \in {[gain |-> Num(-3)], [enabled |-> FALSE]} :
          BandUpdate(id, newValues)

BandSpec == Init /\ [][BandNext]_vars

(***************************************************************************)
(* The player: the audio element, its loadedmetadata event, the clicks on  *)
(* the processed WaveformDisplay of App and the play() promises of seeks.  *)
(***************************************************************************)
\* AudioPlayer returns null without processedAudio: audioRef.current is then null.
AudioMounted == processedAudio # NoUrl

\* The element audioRef.current points at.
AudioElement == IF audio.src = processedAudio THEN audio ELSE FreshAudio(processedAudio)

\* handleLoadedMetadata (705-709)
handleLoadedMetadata ==
    /\ IF AudioMounted
       THEN /\ audioDuration' = blobDurations[processedAudio]
            /\ audio' = [AudioElement EXCEPT !.loaded = TRUE]
       ELSE UNCHANGED <<audioDuration, audio>>
    /\ toasts' = <<>>
    /\ lastEvent' = Event("loadedMetadata", NoId)
    /\ UNCHANGED <<selectedFile, processedAudio, isLoading, denoiseStrength, outputFormat,
                   downloadFilename, eqBands, applyNormalization, requestWaveform,
                   originalWaveform, processedWaveform, calls, urlCount, lastNow, job>>

\* The element fires loadedmetadata once it has read the header of its source.
LoadedMetadata ==
    /\ AudioMounted
    /\ ~AudioElement.loaded
    /\ handleLoadedMetadata
    /\ UNCHANGED <<nEdits, effects, effectFields, waveformDisplay, seeks, plays,
                   blobDurations>>

\* handleWaveformSeek (711-721), up to the call of play(): the assignment of
\* currentTime and the promise play() returns.
handleWaveformSeek(seekTime) ==
    IF AudioMounted
    THEN /\ audio' = [AudioElement EXCEPT !.currentTime = seekTime]
         /\ plays' = plays + 1
    ELSE UNCHANGED <<audio, plays>>

\* {requestWaveform && selectedFile && (...)} (App.js 786)
WaveformsRendered == requestWaveform /\ selectedFile.present

\* The props of the processed WaveformDisplay (App.js 794-799); width is the
\* default of WaveformDisplay.js line 5.
ProcessedDisplay ==
    [data |-> processedWaveform, audioDuration |-> audioDuration,
     onWaveformClick |-> TRUE, width |-> 300, left |-> waveformDisplay.left]

\* A click on the processed WaveformDisplay: handleCanvasClick (8-22) with
\* handleWaveformSeek as its onWaveformClick.
ClickProcessedWaveform(clientX) ==
    /\ WaveformsRendered
    /\ Len(seeks) < MaxSeeks
    /\ LET props    == ProcessedDisplay
           seekTime == SeekTime(CanvasX(clientX, props.left), props.width,
                                props.audioDuration)
       IN  IF SeekGuard(props)
           THEN /\ seeks' = Append(seeks, seekTime)
                /\ handleWaveformSeek(seekTime)
           ELSE UNCHANGED <<seeks, audio, plays>>
    /\ toasts' = <<>>
    /\ lastEvent' = Event("canvasClick", <<"clientX", clientX>>)
    /\ UNCHANGED <<appVars, nEdits, effects, effectFields, waveformDisplay, blobDurations>>

\* play() resolves: the element, still mounted, has started playing.
PlayResolves ==
    /\ plays > 0
    /\ AudioMounted /\ audio.src = processedAudio
    /\ plays' = plays - 1
    /\ audio' = [audio EXCEPT !.paused = FALSE]
    /\ toasts' = <<>>
    /\ lastEvent' = Event("playResolved", NoId)
    /\ UNCHANGED <<appVars, nEdits, effects, effectFields, waveformDisplay, seeks,
                   blobDurations>>

\* play() rejects and the catch of 714-719 runs: toast.info(...)
PlayRejects ==
    /\ plays > 0
    /\ plays' = plays - 1
    /\ toasts' = <<PlaybackNotice>>
    /\ lastEvent' = Event("playRejected", NoId)
    /\ UNCHANGED <<appVars, nEdits, effects, effectFields, waveformDisplay, seeks,
                   audio, blobDurations>>

PlayerInit ==
    /\ AppInit
    /\ effects = DefaultEffects
    /\ effectFields = NoEffectFields
    /\ waveformDisplay = DefaultWaveformDisplay
    /\ seeks = <<>>
    /\ audio = NoAudio
    /\ plays = 0
    /\ blobDurations \in [1..MaxUrls -> {Num(10), Num(4)}]

PlayerNext ==
    \/ \E file \in {File(<<"song", ".", "wav">>)} : ChooseFile(file)
    \/ ClickProcess
    \/ \E r \in {JsonResponse, StreamResponse, ErrorWithDetail} : Respond(r)
    \/ ToggleRequestWaveform
    \/ LoadedMetadata
    \/ \E clientX \in {150, 320} : ClickProcessedWaveform(clientX)
    \/ PlayResolves
    \/ PlayRejects

PlayerSpec == PlayerInit /\ [][PlayerNext]_vars

\* The object URLs released with URL.revokeObjectURL: the sources hold no call
\* of it outside the tests' mock, so none is.
RevokedUrls == {}

\* The object URLs URL.createObjectURL has returned.
CreatedUrls == 1..urlCount

(***************************************************************************)
(* Properties.                                                             *)
(***************************************************************************)
\* The EQ array of a built request: what eq_bands_json parses to, <<>> when
\* the field is absent.
EqArray(call) ==
    IF call.formData.eq_bands_json.present THEN call.formData.eq_bands_json.v ELSE <<>>

ShelfTypes == {"lowshelf", "highshelf"}

\* C1: a submit with no file selected emits the notice 'Please select an audio
\* file first.', starts no network call and leaves the job state, the busy
\* flag, the playable resource and the waveforms as they were.
C1_NoFileSubmit ==
    [][ (~selectedFile.present /\ handleSubmit) =>
            /\ toasts' = <<NoFileNotice>>
            /\ calls' = calls
            /\ job' = job
            /\ isLoading' = isLoading
            /\ processedAudio' = processedAudio
            /\ originalWaveform' = originalWaveform
            /\ processedWaveform' = processedWaveform ]_vars

C1_Witness ==
    /\ lastEvent.op = "submitNoFile"
    /\ ~selectedFile.present
    /\ job = "Idle" /\ ~isLoading
    /\ calls = <<>>
    /\ toasts = <<NoFileNotice>>

\* C2: at most one network call is outstanding in every reachable state, and a
\* click on the submit Button while the job is Submitting starts no call and
\* changes nothing of the application state.
C2_SingleFlight ==
    /\ [](Len(calls) <= 1)
    /\ [][ (job = "Submitting" /\ (ClickProcess \/ ClickProcessDisabled)) =>
              UNCHANGED <<appVars, toasts>> ]_vars

C2_Witness ==
    /\ lastEvent.op = "clickDisabled"
    /\ job = "Submitting" /\ isLoading
    /\ Len(calls) = 1

\* C3: when the call of a submission fails, the job goes from Submitting to
\* Failed, the one notice emitted is an error carrying the failure's message,
\* the submit control is enabled again (busy flag false), and the playable
\* resource and both waveforms are null.
C3_FailureToFailed ==
    [][ \A r \in Responses :
          (Respond(r) /\ ~processAudio(r, urlCount + 1).ok) =>
              /\ job = "Submitting" /\ job' = "Failed"
              /\ toasts' = <<Toast("error", processAudio(r, urlCount + 1).message)>>
              /\ ~isLoading' /\ ~SubmitDisabled'
              /\ processedAudio' = NoUrl
              /\ originalWaveform' = Null
              /\ processedWaveform' = Null ]_vars

C3_Witness ==
    /\ lastEvent.op = "reject"
    /\ job = "Failed"
    /\ urlCount = 1
    /\ toasts = <<Toast("error", <<"Processing failed">>)>>
    /\ processedAudio = NoUrl /\ ~isLoading

\* C4: the job state moves only Idle -> Submitting -> {Succeeded, Failed} and
\* from Succeeded or Failed back to Submitting: a call settles only in
\* Submitting, Succeeded and Failed are entered only from Submitting, and
\* Submitting is entered only by a submit with a file present.
C4_JobTransitions ==
    [][ /\ job = "Idle" => job' \in {"Idle", "Submitting"}
        /\ job = "Submitting" => job' \in {"Submitting", "Succeeded", "Failed"}
        /\ job \in {"Succeeded", "Failed"} => job' \in {job, "Submitting"}
        /\ (lastEvent'.op \in {"resolve", "reject"} /\ calls' # calls) =>
              job = "Submitting" /\ job' \in {"Succeeded", "Failed"}
        /\ (job' = "Submitting" /\ (job # "Submitting" \/ calls' # calls)) =>
              selectedFile.present /\ handleSubmit /\ job # "Submitting" ]_vars

C4_Witness ==
    /\ lastEvent.op = "submit"
    /\ job = "Submitting"
    /\ urlCount = 1
    /\ Len(calls) = 1

\* C5: removeBand(id) leaves the band collection unchanged when no band has
\* that id or when the band with that id is not removable; otherwise it
\* removes the removable band with that id and nothing else.
C5_RemoveOnlyRemovable ==
    [][ \A id \in BandIds(eqBands) \cup {UnknownId} :
          handleRemoveEqBand(id) =>
              eqBands' = SelectSeq(eqBands, LAMBDA b : ~(b.id = id /\ b.removable)) ]_vars

C5_Witness ==
    /\ lastEvent = Event("removeBand", <<"lowcut", 0>>)
    /\ <<"lowcut", 0>> \notin BandIds(eqBands)
    /\ Len(eqBands) = 2
    /\ \A i \in 1..Len(eqBands) : ~eqBands[i].removable

\* C6: updateBand(id, partialFields) with an id that matches no band leaves
\* the band collection unchanged.
C6_UpdateUnknownId ==
    [][ \A id \in BandIds(eqBands) \cup {UnknownId}, newValues \in PartialUpdates :
          (handleUpdateEqBand(id, newValues) /\ id \notin BandIds(eqBands)) =>
              eqBands' = eqBands ]_vars

C6_Witness ==
    /\ lastEvent = Event("updateBand", UnknownId)
    /\ UnknownId \notin BandIds(eqBands)
    /\ eqBands = SeedBands
    /\ nEdits = 1

\* C7: no entry of a built request's EQ array has gain 0, whatever the type
\* and the enabled flag of the bands whose gain is 0.
C7_NoZeroGain ==
    \A c \in 1..Len(calls) :
        \A j \in 1..Len(EqArray(calls[c])) : EqArray(calls[c])[j].gain # Num(0)

C7_Witness ==
    /\ Len(calls) = 1
    /\ calls[1].formData.eq_bands_json.present
    /\ eqBands[1].gain = Num(0) /\ eqBands[1].type = "highshelf" /\ eqBands[1].enabled
    /\ eqBands[2].gain = Num(0) /\ eqBands[2].type = "peaking" /\ ~eqBands[2].enabled
    /\ eqBands[3].gain = Num(-3) /\ eqBands[3].enabled

\* C8 as stated: a shelf band is in the EQ array only when its gain is below
\* 0, so no shelf entry has gain 0 or a positive gain.
C8_ShelfOnlyNegative ==
    \A c \in 1..Len(calls) :
        \A j \in 1..Len(EqArray(calls[c])) :
            LET e == EqArray(calls[c])[j]
            IN  e.type \in ShelfTypes => ~(e.gain.k = "num" /\ e.gain.v >= 0)

\* C8 amended: an enabled shelf band is in the EQ array exactly when its gain
\* is not 0, be it negative or positive.
C8_ShelfNonZero ==
    \A c \in 1..Len(calls) :
        \A i \in 1..Len(eqBands) :
            LET b == eqBands[i]
                wire == [freq |-> JsonNumber(b.freq), gain |-> JsonNumber(b.gain),
                         q |-> JsonNumber(b.q), type |-> b.type]
            IN  (b.enabled /\ b.type \in ShelfTypes) =>
                    ( (\E j \in 1..Len(EqArray(calls[c])) : EqArray(calls[c])[j] = wire)
                      <=> b.gain # Num(0) )

C8_Witness ==
    /\ Len(calls) = 1
    /\ \E j \in 1..Len(EqArray(calls[1])) :
          /\ EqArray(calls[1])[j].type = "lowshelf"
          /\ EqArray(calls[1])[j].gain = Num(3)

\* C9: a request built when no band is both enabled and acoustically active
\* has no eq_bands_json field, and eq_bands_json is never an empty array.
C9_NoEmptyEqField ==
    \A c \in 1..Len(calls) :
        LET field == calls[c].formData.eq_bands_json
            active(b) == b.gain # Num(0)
        IN  /\ (\A i \in 1..Len(eqBands) : ~(eqBands[i].enabled /\ active(eqBands[i])))
                => ~field.present
            /\ field.present => Len(field.v) >= 1

C9_Witness ==
    /\ Len(calls) = 1
    /\ ~calls[1].formData.eq_bands_json.present
    /\ eqBands[1].gain = Num(-3) /\ ~eqBands[1].enabled
    /\ eqBands[2].gain = Num(0) /\ eqBands[2].enabled

\* C10: the EQ array of a built request is the sequence, in band order, of
\* {freq, gain, q, type} of the bands that are enabled and have gain != 0 (or
\* are a shelf with gain < 0), with no other field; with the seed bands and
\* lowcut.gain = -3 it is [{freq:100, gain:-3, q:0.7, type:lowshelf}].
C10_Included(b) ==
    b.enabled /\ ( b.gain # Num(0)
                   \/ (b.type \in ShelfTypes /\ b.gain.k = "num" /\ b.gain.v < 0) )

C10_Expected(bands) ==
    LET sel == SelectSeq(bands, C10_Included)
    IN  [i \in 1..Len(sel) |->
            [freq |-> JsonNumber(sel[i].freq), gain |-> JsonNumber(sel[i].gain),
             q |-> JsonNumber(sel[i].q), type |-> sel[i].type]]

C10_Scenario == [SeedBands EXCEPT ![1].gain = Num(-3)]

C10_ExactEqArray ==
    \A c \in 1..Len(calls) :
        /\ \A j \in 1..Len(EqArray(calls[c])) :
              DOMAIN EqArray(calls[c])[j] = {"freq", "gain", "q", "type"}
        /\ EqArray(calls[c]) = C10_Expected(eqBands)
        /\ eqBands = C10_Scenario =>
              EqArray(calls[c]) =
                  <<[freq |-> Num(100), gain |-> Num(-3), q |-> Fin(7), type |-> "lowshelf"]>>

C10_Witness ==
    /\ Len(calls) = 1
    /\ eqBands = C10_Scenario
    /\ Len(EqArray(calls[1])) = 1

\* The names of the fields appended to a FormData.
FormDataKeys(formData) ==
    {k \in DOMAIN formData : k = "eq_bands_json" => formData[k].present}

\* C11: every built request holds the six fields file, denoise_strength,
\* output_format, apply_normalization, request_waveform and trim_silence, the
\* booleans as 'true' or 'false', each equal to the configuration value at
\* submit time.
C11_SixFields ==
    \A c \in 1..Len(calls) :
        LET formData == calls[c].formData
        IN  /\ {"file", "denoise_strength", "output_format", "apply_normalization",
                "request_waveform", "trim_silence"} \subseteq FormDataKeys(formData)
            /\ formData.file = selectedFile
            /\ formData.denoise_strength = String(denoiseStrength)
            /\ formData.output_format = outputFormat
            /\ formData.apply_normalization =
                   (IF applyNormalization THEN <<"true">> ELSE <<"false">>)
            /\ formData.request_waveform =
                   (IF requestWaveform THEN <<"true">> ELSE <<"false">>)
            /\ formData.trim_silence \in {<<"true">>, <<"false">>}

C11_Witness ==
    /\ Len(calls) = 1
    /\ lastEvent.op = "submit"
    /\ FormDataKeys(calls[1].formData) =
           {"file", "denoise_strength", "output_format", "apply_normalization",
            "request_waveform"}
    /\ calls[1].formData.apply_normalization = <<"true">>
    /\ calls[1].formData.request_waveform = <<"false">>

CompressorFields ==
    {"compressor_threshold", "compressor_ratio", "compressor_attack", "compressor_release"}

ReverbFields == {"reverb_room_size", "reverb_wet_dry_mix"}

\* C12: a built request carries all four compressor fields when the
\* compressor section is active and none of them when it is not, and both
\* reverb fields when the reverb section is active and neither when it is not.
C12_SectionFields ==
    [][ SubmitEffects =>
          /\ \A k \in CompressorFields : effectFields'[k].present = effects.showCompressor
          /\ \A k \in ReverbFields : effectFields'[k].present = effects.showReverb ]_vars

C12_Witness ==
    /\ lastEvent.op = "submitEffects"
    /\ effects.showCompressor /\ ~effects.showReverb
    /\ effectFields.built
    /\ \A k \in CompressorFields : effectFields[k].present
    /\ \A k \in ReverbFields : ~effectFields[k].present
    /\ effectFields.compressor_threshold.v = String(Num(-40))

\* A structured success: 2xx, declared JSON, a body that parses, audio that decodes.
StructuredSuccess(r) ==
    /\ r.net /\ r.ok
    /\ IsJsonContentType(r.contentType)
    /\ r.bodyJson /\ r.audio_b64 = "valid"

\* C13 as stated: when a submission built with EQ active gets a structured
\* success, the stored processedWaveform and originalWaveform are the
\* response's processed_waveform and original_waveform arrays.
C13_RoundTrip ==
    [][ \A r \in SubmitResponses :
          ( /\ Respond(r) /\ StructuredSuccess(r)
            /\ calls[1].formData.eq_bands_json.present ) =>
              /\ processedWaveform' = r.processed_waveform
              /\ originalWaveform' = r.original_waveform ]_vars

\* C13 amended: the same, for a submission made with waveforms requested.
C13_RoundTripRequested ==
    [][ \A r \in SubmitResponses :
          ( /\ Respond(r) /\ StructuredSuccess(r)
            /\ calls[1].formData.eq_bands_json.present
            /\ calls[1].formData.request_waveform = <<"true">> ) =>
              /\ processedWaveform' = r.processed_waveform
              /\ originalWaveform' = r.original_waveform ]_vars

C13_Witness ==
    /\ lastEvent.op = "resolve"
    /\ job = "Succeeded"
    /\ requestWaveform
    /\ eqBands[1].gain = Num(-3)
    /\ originalWaveform = Array(<<1, 2>>)
    /\ processedWaveform = Array(<<3, 4>>)

\* The message holds the status code of the response.
CarriesStatus(message, status) == \E i \in 1..Len(message) : message[i] = status

StreamSuccess(r) == r.net /\ r.ok /\ ~IsJsonContentType(r.contentType)

\* C15: after a successful stream response both waveforms are null and the
\* download name is the filename of the Content-Disposition header when the
\* header is present, and processed_<stem of the selected file>.<output format>
\* otherwise.
C15_StreamResult ==
    [][ \A r \in SubmitResponses :
          (Respond(r) /\ StreamSuccess(r)) =>
              /\ originalWaveform' = Null
              /\ processedWaveform' = Null
              /\ downloadFilename' =
                     IF r.disposition.present THEN r.disposition.filename
                     ELSE ProcessedName(Stem(selectedFile.name), outputFormat) ]_vars

C15_Witness ==
    /\ lastEvent.op = "resolve"
    /\ job = "Succeeded"
    /\ selectedFile = File(<<"another_song", ".", "wav">>)
    /\ outputFormat = "mp3"
    /\ processedAudio = 1
    /\ originalWaveform = Null /\ processedWaveform = Null
    /\ downloadFilename = <<"processed_audio", ".", "wav">>

\* A malformed structured response: 2xx, declared JSON, and a body that does
\* not parse or whose audio_b64 is missing or does not decode.
MalformedStructured(r) ==
    /\ r.net /\ r.ok
    /\ IsJsonContentType(r.contentType)
    /\ (~r.bodyJson \/ r.audio_b64 # "valid")

\* C16: a malformed structured response does not end the submission in
\* Failed: no error notice is emitted, a warning is, the audio is usable and
\* the waveforms are unavailable.
C16_MalformedAbsorbed ==
    [][ \A r \in SubmitResponses :
          (Respond(r) /\ MalformedStructured(r)) =>
              /\ job' # "Failed"
              /\ \A i \in 1..Len(toasts') : toasts'[i].kind # "error"
              /\ \E i \in 1..Len(toasts') : toasts'[i].kind = "warn"
              /\ processedAudio' # NoUrl
              /\ originalWaveform' = Null /\ processedWaveform' = Null ]_vars

C16_Witness ==
    /\ lastEvent.op = "reject"
    /\ job = "Failed"
    /\ processedAudio = NoUrl
    /\ toasts = <<Toast("error", <<"The string to be decoded is not correctly encoded.">>)>>

\* C17: when a submission that requested waveforms settles with a successful
\* non-structured response, the job is Succeeded, the playable resource is
\* set, both waveforms are null, a warning notice is emitted and no error
\* notice is.
C17_StreamWithWaveformsRequested ==
    [][ \A r \in SubmitResponses : \A i \in 1..Len(calls) :
          (Settle(i, r) /\ StreamSuccess(r) /\ calls[i].requestWaveform) =>
              /\ job' = "Succeeded"
              /\ processedAudio' # NoUrl
              /\ originalWaveform' = Null /\ processedWaveform' = Null
              /\ \E k \in 1..Len(toasts') : toasts'[k].kind = "warn"
              /\ \A k \in 1..Len(toasts') : toasts'[k].kind # "error" ]_vars

C17_Witness ==
    /\ lastEvent.op = "resolve"
    /\ requestWaveform
    /\ job = "Succeeded"
    /\ processedAudio # NoUrl
    /\ originalWaveform = Null /\ processedWaveform = Null
    /\ toasts = <<WaveformWarning, SuccessNotice>>

C19_SeekMapping ==
    [][ \A clientX \in ClientXs :
          (CanvasClick(clientX) /\ SeekGuard(waveformDisplay)) =>
              LET x == clientX - waveformDisplay.left
                  W == waveformDisplay.width
                  s == seeks'[Len(seeks')]
              IN  /\ Len(seeks') = Len(seeks) + 1
                  /\ s.d # 0
                  /\ s.n * W = x * waveformDisplay.audioDuration.v * s.d
                  /\ (2 * x = W /\ waveformDisplay.audioDuration = Num(10)) =>
                         s.n = 50 * s.d ]_vars

C19_Witness ==
    /\ lastEvent = Event("canvasClick", <<"clientX", 170>>)
    /\ waveformDisplay.width = 300
    /\ waveformDisplay.left = 20
    /\ waveformDisplay.audioDuration = Num(10)
    /\ Len(seeks) = 1
    /\ seeks[1].n = 50 * seeks[1].d

\* The object URLs created and not released.
UnreleasedUrls == CreatedUrls \ RevokedUrls

\* C20: playable resources never leak: in every reachable state at most one
\* created object URL is unreleased, and it is the one the player references.
C20_NoLeak ==
    /\ Cardinality(UnreleasedUrls) <= 1
    /\ \A u \in UnreleasedUrls : processedAudio = u

C20_Witness ==
    /\ lastEvent.op = "fileChange"
    /\ processedAudio = NoUrl
    /\ UnreleasedUrls = {1}

\* C21: a seek sets the element's currentTime to seekTime and calls play();
\* when play() rejects, the only notice is an informational one, no error
\* notice is emitted, and the job state, the playable resource and the
\* waveforms are unchanged.
C21_SeekAndRejection ==
    [][ /\ (seeks' # seeks) =>
               /\ audio'.src = processedAudio
               /\ audio'.currentTime = seeks'[Len(seeks')]
               /\ plays' = plays + 1
        /\ PlayRejects =>
               /\ Len(toasts') = 1
               /\ toasts'[1].kind = "info"
               /\ \A k \in 1..Len(toasts') : toasts'[k].kind # "error"
               /\ UNCHANGED <<job, processedAudio, originalWaveform, processedWaveform>>
      ]_vars

C21_Witness ==
    /\ lastEvent.op = "playRejected"
    /\ toasts = <<PlaybackNotice>>
    /\ job = "Succeeded"
    /\ audio.src = processedAudio
    /\ Len(seeks) = 1
    /\ audio.currentTime = seeks[1]
    /\ audio.paused

\* C22: after any sequence of band edits every band's freq is a number in
\* [20, 20000], its q a number in [0.1, 10] and its gain a finite number
\* (numbers in tenths).
C22_BandsInRange ==
    \A i \in 1..Len(eqBands) :
        /\ eqBands[i].freq.k = "num"
        /\ 200 <= eqBands[i].freq.v /\ eqBands[i].freq.v <= 200000
        /\ eqBands[i].q.k = "num"
        /\ 1 <= eqBands[i].q.v /\ eqBands[i].q.v <= 100
        /\ eqBands[i].gain.k = "num"

C22_Witness ==
    /\ lastEvent = Event("updateBand", <<"lowcut", 0>>)
    /\ eqBands[1].freq = NaN
    /\ eqBands[1].gain = Num(0)

\* The ids of a band collection, in order.
IdSeq(bands) == [i \in 1..Len(bands) |-> bands[i].id]

\* a is b with some elements left out, the others in the same order.
RECURSIVE IsSubsequence(_, _)
IsSubsequence(a, b) ==
    IF a = <<>> THEN TRUE
    ELSE IF b = <<>> THEN FALSE
    ELSE IF Head(a) = Head(b) THEN IsSubsequence(Tail(a), Tail(b))
    ELSE IsSubsequence(a, Tail(b))

\* C23: band ids are unique and stable: after every addBand, removeBand or
\* updateBand call no two bands share an id, and the call has changed the id
\* of no band there was (the ids are the old ones in their order, with one new
\* id appended or some removed).
C23_UniqueStableIds ==
    [][ /\ \A i, j \in 1..Len(eqBands') : i # j => eqBands'[i].id # eqBands'[j].id
        /\ \/ /\ Len(eqBands') = Len(eqBands) + 1
              /\ SubSeq(IdSeq(eqBands'), 1, Len(eqBands)) = IdSeq(eqBands)
           \/ /\ Len(eqBands') <= Len(eqBands)
              /\ IsSubsequence(IdSeq(eqBands'), IdSeq(eqBands)) ]_vars

C23_Witness ==
    /\ lastEvent.op = "addBand"
    /\ Len(eqBands) = 5
    /\ eqBands[4].id = eqBands[5].id
    /\ nEdits = 2

\* C24: while the job is Submitting no event changes the configuration (file,
\* denoise strength, output format, normalization and waveform flags, bands),
\* so when the call settles the configuration still serializes to the request
\* that was built at submit.
C24_ConfigFrozenWhileSubmitting ==
    [][ /\ (job = "Submitting") =>
               UNCHANGED <<selectedFile, denoiseStrength, outputFormat,
                           applyNormalization, requestWaveform, eqBands>>
        /\ \A r \in Responses : \A i \in 1..Len(calls) :
               Settle(i, r) =>
                   calls[i].formData =
                       BuildFormData(selectedFile, denoiseStrength, outputFormat,
                                     applyNormalization, requestWaveform, eqBands)
      ]_vars

C24_Witness ==
    /\ job = "Submitting"
    /\ nEdits = 1
    /\ applyNormalization
    /\ Len(calls) = 1
    /\ calls[1].formData =
           BuildFormData(selectedFile, denoiseStrength, outputFormat,
                         applyNormalization, requestWaveform, eqBands)

\* C25: the job leaves Submitting if and only if the call settles: while it
\* is Submitting a step ends Submitting exactly when it is the settlement of
\* the call, and every settlement (success, rejection, or an exception raised
\* while the response is interpreted) clears the busy flag.
C25_LeavesSubmittingIffSettles ==
    [][ /\ (job = "Submitting") =>
               ((job' # "Submitting") <=> (\E r \in Responses : Respond(r)))
        /\ (\E r \in Responses : Respond(r)) => ~isLoading' ]_vars

C25_Witness ==
    /\ lastEvent.op = "reject"
    /\ toasts = <<Toast("error", <<"Unexpected token in JSON">>)>>
    /\ job = "Failed"
    /\ ~isLoading
    /\ calls = <<>>

\* C26: band ordering is insertion order: an addBand call places the new band
\* last and leaves the bands before it as they were, and a removeBand or
\* updateBand call keeps the bands that remain in their relative order.
C26_InsertionOrder ==
    [][ \/ /\ Len(eqBands') = Len(eqBands) + 1
           /\ SubSeq(eqBands', 1, Len(eqBands)) = eqBands
           /\ eqBands'[Len(eqBands')].id[1] = "band"
        \/ /\ Len(eqBands') = Len(eqBands)
           /\ IdSeq(eqBands') = IdSeq(eqBands)
        \/ /\ Len(eqBands') < Len(eqBands)
           /\ \E kept \in SUBSET (1..Len(eqBands)) :
                  /\ Cardinality(kept) = Len(eqBands')
                  /\ \A j \in 1..Len(eqBands') :
                         \E i \in kept :
                             /\ Cardinality({k \in kept : k <= i}) = j
                             /\ eqBands'[j] = eqBands[i] ]_vars

C26_Witness ==
    /\ nEdits = 3
    /\ lastEvent.op = "removeBand"
    /\ Len(eqBands) = 4
    /\ IdSeq(eqBands) = <<<<"lowcut", 0>>, <<"clarity", 0>>, <<"presence", 0>>, <<"band", 1>>>>

\* C27: in every reachable state the playable resource is set only when the
\* last submission succeeded (never while a call is in flight, after a
\* failure or right after a file was chosen), and a waveform is set only when
\* the playable resource is; hence no seek callback fires while a submission
\* is in flight.
C27_ResourceOnlyAfterSuccess ==
    /\ [](/\ (processedAudio # NoUrl) =>
                 (job = "Succeeded" /\ ~isLoading /\ calls = <<>>)
          /\ (job \in {"Submitting", "Failed"}) => processedAudio = NoUrl
          /\ (lastEvent.op = "fileChange") => processedAudio = NoUrl
          /\ (originalWaveform # Null \/ processedWaveform # Null) =>
                 processedAudio # NoUrl)
    /\ [][ (seeks' # seeks) => (job # "Submitting" /\ calls = <<>>) ]_vars

C27_Witness ==
    /\ job = "Succeeded"
    /\ processedAudio = 2
    /\ processedWaveform = Array(<<3, 4>>)
    /\ Len(seeks) = 1
    /\ lastEvent.op = "canvasClick"

\* C28: every seekTime handed to the seek callback lies in [0, audioDuration],
\* for every click the handler on the container around the canvas receives
\* (times as fractions of tenths of a second).
C28_SeekWithinDuration ==
    [][ \A clientX \in ClientXs :
          (CanvasClick(clientX) /\ seeks' # seeks) =>
              LET s == seeks'[Len(seeks')]
              IN  /\ s.d > 0
                  /\ 0 <= s.n
                  /\ s.n <= waveformDisplay.audioDuration.v * s.d ]_vars

C28_Witness ==
    /\ lastEvent = Event("canvasClick", <<"clientX", 0>>)
    /\ waveformDisplay.left = 20
    /\ waveformDisplay.audioDuration = Num(10)
    /\ Len(seeks) = 1
    /\ seeks[1].n < 0

\* C29: the duration used to map a click to a seek time is the duration of
\* the result currently loaded: whenever a click fires the seek callback,
\* audioDuration is the duration of the audio behind processedAudio.
C29_SeekUsesCurrentDuration ==
    [][ (seeks' # seeks) =>
            /\ processedAudio # NoUrl
            /\ audioDuration = blobDurations[processedAudio] ]_vars

C29_Witness ==
    /\ lastEvent.op = "canvasClick"
    /\ processedAudio = 2
    /\ ~AudioElement.loaded
    /\ audioDuration = Num(10)
    /\ blobDurations[2] = Num(4)
    /\ seeks = <<SeekTime(150, 300, Num(10))>>

\* C30: after a successful submission the download name stays the one
\* delivered with the result until the next submission or file selection: no
\* other event, a change of the output format included, changes it.
C30_DownloadNameStable ==
    [][ ( /\ job = "Succeeded"
          /\ processedAudio # NoUrl
          /\ lastEvent'.op \notin {"submit", "fileChange"} ) =>
            downloadFilename' = downloadFilename ]_vars

C30_Witness ==
    /\ lastEvent.op = "outputFormat"
    /\ job = "Succeeded"
    /\ processedAudio = 1
    /\ outputFormat = "mp3"
    /\ downloadFilename = ProcessedName(<<"song">>, "mp3")

====
